---- MODULE Spec2Model ----
(***************************************************************************)
(* quay: a docker-compose wrapper (src/main.go, lines 1-349).              *)
(* One run of the program is modelled as a state machine: run() classifies *)
(* the arguments, rejects include+exclude, looks the compose file up, and  *)
(* either passes everything through to docker-compose or loads, filters,   *)
(* overrides, serializes and pipes the project to docker-compose.          *)
(*                                                                         *)
(* Tokens (command-line arguments, service names, port fields) are         *)
(* sequences of one-character strings, so that parsePortMapping's regular  *)
(* expression is modelled on the characters it reads.                      *)
(***************************************************************************)
EXTENDS Integers, Sequences, FiniteSets, TLC

VARIABLES
    pc,               \* position in run(): start, parsed, found, loaded, ports, exit
    args,             \* flagSet.Args(): the sub-command and the tokens after it
    cmdOptions,       \* parseRemainingArgs: pass-through options
    includeServices,  \* parseRemainingArgs: --include names
    excludeServices,  \* parseRemainingArgs: --exclude names
    portMappings,     \* parseRemainingArgs: accepted --port mappings
    composePath,      \* findComposeFile's result
    project,          \* the project LoadProject returned
    filteredProject,  \* filterServices' result, then mutated by applyPortMappings
    missingServices,  \* filterServices' missing names (then with the overrides')
    missingPortServices, \* applyPortMappings' missing names
    pmIdx,            \* applyPortMappings: index of the next mapping of the loop
    trace,            \* the side effects so far, in order
    child,            \* the docker-compose process started, or NoChild
    exitCode,         \* this process's exit code, or -1 while it runs
    token,            \* parsePortMapping on its own: the token given
    parsed            \* parsePortMapping on its own: the result, or NotParsed

vars == <<pc, args, cmdOptions, includeServices, excludeServices, portMappings,
          composePath, project, filteredProject, missingServices,
          missingPortServices, pmIdx, trace, child, exitCode, token, parsed>>

parseVars == <<token, parsed>>

runVars == <<pc, args, cmdOptions, includeServices, excludeServices, portMappings,
             composePath, project, filteredProject, missingServices,
             missingPortServices, pmIdx, trace, child, exitCode>>

----------------------------------------------------------------------------
(* Bounds of the model. *)

\* Items (a plain token, or a directive with its argument) after the sub-command.
MaxItems == 2

\* Characters of a token given to parsePortMapping on its own.
MaxTokenLen == 6

----------------------------------------------------------------------------
(* Tokens. *)

IncludeFlag == <<"-","-","i","n","c","l","u","d","e">>
ExcludeFlag == <<"-","-","e","x","c","l","u","d","e">>
PortFlag == <<"-","-","p","o","r","t">>
RemoveOrphans == <<"-","-","r","e","m","o","v","e","-","o","r","p","h","a","n","s">>
DetachFlag == <<"-","d">>
UpCmd == <<"u","p">>
DownCmd == <<"d","o","w","n">>

NameA == <<"a">>
NameB == <<"b">>
NameC == <<"c">>
NameUpperA == <<"A">>

DigitChars == {"0","1","2","3","4","5","6","7","8","9"}

----------------------------------------------------------------------------
(* Decimal strings.  strconv reads a port field as a decimal number; the   *)
(* numbers involved (2^32-1, 2^63-1) are modelled exactly, as digit        *)
(* sequences without leading zeros, compared by length and then digitwise. *)

DigitSeq == <<"0","1","2","3","4","5","6","7","8","9">>

DigitVal(c) == (CHOOSE n \in 1..10 : DigitSeq[n] = c) - 1

RECURSIVE StripZeros(_)
StripZeros(s) ==
    IF Len(s) > 1 /\ s[1] = "0" THEN StripZeros(Tail(s)) ELSE s

\* x < y for two digit sequences without leading zeros
DecLess(x, y) ==
    \/ Len(x) < Len(y)
    \/ /\ Len(x) = Len(y)
       /\ \E k \in 1..Len(x) :
            /\ \A h \in 1..(k-1) : x[h] = y[h]
            /\ DigitVal(x[k]) < DigitVal(y[k])

\* 2^63 - 1, the largest int of the amd64 and arm64 builds
MaxInt64Digits ==
    <<"9","2","2","3","3","7","2","0","3","6","8","5","4","7","7","5","8","0","7">>

\* 2^32 - 1, the largest uint32
MaxUint32Digits == <<"4","2","9","4","9","6","7","2","9","5">>

\* Mutant of AtoiOk: the port is read with a 32-bit ParseInt (bound 2^31 - 1)
AtoiOk32(s) ==
    ~ DecLess(<<"2","1","4","7","4","8","3","6","4","7">>, StripZeros(s))

\* strconv.Atoi(s) returns no error, for s a non-empty digit string
AtoiOk(s) == ~ DecLess(MaxInt64Digits, StripZeros(s))

\* uint32(n) for n, _ := strconv.ParseUint(s, 10, 32): on a value out of range
\* ParseUint returns the largest uint32 with the error that the caller drops
ParseUint32(s) ==
    IF DecLess(MaxUint32Digits, StripZeros(s)) THEN MaxUint32Digits
    ELSE StripZeros(s)

----------------------------------------------------------------------------
(* parsePortMapping (src/main.go 120-147). *)

EmptyMapping == [ServiceName |-> <<>>, HostPort |-> <<>>, ContainerPort |-> <<>>]

\* The places <<i, j>> of the two colons of a match of ^([^:]+):(\d+):(\d+)$
RegexSplits(mapping) ==
    {ij \in (1..Len(mapping)) \X (1..Len(mapping)) :
        /\ 1 < ij[1] /\ ij[1] + 1 < ij[2] /\ ij[2] < Len(mapping)
        /\ mapping[ij[1]] = ":" /\ mapping[ij[2]] = ":"
        /\ \A k \in 1..(ij[1]-1) : mapping[k] # ":"
        /\ \A k \in (ij[1]+1)..(ij[2]-1) : mapping[k] \in DigitChars
        /\ \A k \in (ij[2]+1)..Len(mapping) : mapping[k] \in DigitChars}

\* re.FindStringSubmatch(mapping): the whole match and the three groups, or <<>> (nil)
FindStringSubmatch(mapping) ==
    IF RegexSplits(mapping) = {} THEN <<>>
    ELSE LET ij == CHOOSE x \in RegexSplits(mapping) : TRUE
         IN  <<mapping,
               SubSeq(mapping, 1, ij[1]-1),
               SubSeq(mapping, ij[1]+1, ij[2]-1),
               SubSeq(mapping, ij[2]+1, Len(mapping))>>

\* The result: the mapping and the error ("" for nil)
parsePortMapping(mapping) ==
    LET matches == FindStringSubmatch(mapping)
    IN  IF matches = <<>> \/ Len(matches) # 4
        THEN [mapping |-> EmptyMapping, err |-> "invalid format"]
        ELSE IF ~ AtoiOk(matches[3])
        THEN [mapping |-> EmptyMapping, err |-> "invalid host port"]
        ELSE IF ~ AtoiOk(matches[4])
        THEN [mapping |-> EmptyMapping, err |-> "invalid container port"]
        ELSE [mapping |-> [ServiceName |-> matches[2],
                           HostPort |-> matches[3],
                           ContainerPort |-> matches[4]],
              err |-> ""]

----------------------------------------------------------------------------
(* parseRemainingArgs (src/main.go 96-118). *)

NoArgs == [cmdOptions |-> <<>>, includeServices |-> <<>>,
           excludeServices |-> <<>>, portMappings |-> <<>>, printed |-> <<>>]

\* The loop from index i on, acc holding the four lists and the warnings printed
RECURSIVE ParseLoop(_, _, _)
ParseLoop(a, i, acc) ==
    IF i > Len(a) THEN acc
    ELSE IF a[i] = IncludeFlag /\ i + 1 <= Len(a)
    THEN ParseLoop(a, i + 2,
            [acc EXCEPT !.includeServices = Append(@, a[i+1])])
    ELSE IF a[i] = ExcludeFlag /\ i + 1 <= Len(a)
    THEN ParseLoop(a, i + 2,
            [acc EXCEPT !.excludeServices = Append(@, a[i+1])])
    ELSE IF a[i] = PortFlag /\ i + 1 <= Len(a)
    THEN LET r == parsePortMapping(a[i+1])
         IN  IF r.err # ""
             THEN ParseLoop(a, i + 2,
                    [acc EXCEPT !.printed =
                        Append(@, [kind |-> "warn_port", arg |-> a[i+1]])])
             ELSE ParseLoop(a, i + 2,
                    [acc EXCEPT !.portMappings = Append(@, r.mapping)])
    ELSE ParseLoop(a, i + 1, [acc EXCEPT !.cmdOptions = Append(@, a[i])])

\* The loop of parseRemainingArgs with one slip, for the mutants below:
\* "keeps_bad": a rejected --port token is not skipped (no i++ on that path);
\* "keeps_name": the name of an --exclude is not skipped
RECURSIVE ParseLoopSlip(_, _, _, _)
ParseLoopSlip(a, i, acc, slip) ==
    IF i > Len(a) THEN acc
    ELSE IF a[i] = IncludeFlag /\ i + 1 <= Len(a)
    THEN ParseLoopSlip(a, i + 2,
            [acc EXCEPT !.includeServices = Append(@, a[i+1])], slip)
    ELSE IF a[i] = ExcludeFlag /\ i + 1 <= Len(a)
    THEN ParseLoopSlip(a, IF slip = "keeps_name" THEN i + 1 ELSE i + 2,
            [acc EXCEPT !.excludeServices = Append(@, a[i+1])], slip)
    ELSE IF a[i] = PortFlag /\ i + 1 <= Len(a)
    THEN LET r == parsePortMapping(a[i+1])
         IN  IF r.err # ""
             THEN ParseLoopSlip(a, IF slip = "keeps_bad" THEN i + 1 ELSE i + 2,
                    [acc EXCEPT !.printed =
                        Append(@, [kind |-> "warn_port", arg |-> a[i+1]])], slip)
             ELSE ParseLoopSlip(a, i + 2,
                    [acc EXCEPT !.portMappings = Append(@, r.mapping)], slip)
    ELSE ParseLoopSlip(a, i + 1, [acc EXCEPT !.cmdOptions = Append(@, a[i])], slip)

\* Mutant of parseRemainingArgs: a rejected --port token stays to be classified
parseRemainingArgsKeepsBad(a) == ParseLoopSlip(a, 1, NoArgs, "keeps_bad")

\* Mutant of parseRemainingArgs: the name of an --exclude stays to be classified
parseRemainingArgsKeepsName(a) == ParseLoopSlip(a, 1, NoArgs, "keeps_name")

parseRemainingArgs(a) == ParseLoop(a, 1, NoArgs)

----------------------------------------------------------------------------
(* The project model of compose-go, as far as main.go reads it: a project  *)
(* is its services (a map from name to service) and its other sections; a  *)
(* service is its ports (a sequence of bindings) and its other fields.     *)

Port80 == <<"8","0">>
Port53 == <<"5","3">>
Port99 == <<"9","9">>

ServiceA ==
    [image |-> "nginx", networks |-> {"front"},
     ports |-> << [published |-> <<"8","0","8","0">>, target |-> Port80, protocol |-> "tcp"],
                  [published |-> <<"5","3","5","3">>, target |-> Port53, protocol |-> "udp"] >>]

\* two bindings of one target port, by protocol
ServiceB ==
    [image |-> "coredns", networks |-> {"front", "back"},
     ports |-> << [published |-> <<"5","3">>, target |-> Port53, protocol |-> "udp"],
                  [published |-> <<"5","4">>, target |-> Port53, protocol |-> "tcp"] >>]

ServiceC == [image |-> "busybox", networks |-> {}, ports |-> <<>>]

AllServices == (NameA :> ServiceA) @@ (NameB :> ServiceB) @@ (NameC :> ServiceC)

\* The service sets of the projects a run may load
ServiceSets == {{}, {NameA}, {NameA, NameB}, {NameA, NameB, NameC}}

MkProject(names) ==
    [name |-> "demo",
     services |-> [n \in names |-> AllServices[n]],
     networks |-> IF names = {} THEN {} ELSE {"front", "back"},
     volumes |-> IF NameC \in names THEN {"data"} ELSE {}]

Projects == {MkProject(names) : names \in ServiceSets}

NoProject == [name |-> "", services |-> <<>>, networks |-> {}, volumes |-> {}]

----------------------------------------------------------------------------
(* filterServices (src/main.go 278-339). *)

Range(s) == {s[i] : i \in 1..Len(s)}

\* Mutant of FilteredServices: include mode is taken whenever no exclude is given
FilteredServicesModeByExclude(p, includes, excludes) ==
    LET usingIncludeMode == Len(excludes) = 0
        kept == {name \in DOMAIN p.services :
                    IF usingIncludeMode THEN name \in Range(includes)
                    ELSE name \notin Range(excludes)}
    IN  [name \in kept |-> p.services[name]]

\* filteredServices after the loop over project.Services
FilteredServices(p, includes, excludes) ==
    LET includeMap == Range(includes)
        excludeMap == Range(excludes)
        usingIncludeMode == Len(includes) > 0
        kept == {name \in DOMAIN p.services :
                    IF usingIncludeMode THEN name \in includeMap
                    ELSE name \notin excludeMap}
    IN  [name \in kept |-> p.services[name]]

\* Mutant of MissingIncludeServices: a name found is not deleted
MissingIncludeNeverDeleted(p, includes, excludes) == Range(includes)

\* missingIncludeServices after the loop: names are deleted in include mode only
MissingIncludeServices(p, includes, excludes) ==
    IF Len(includes) > 0 THEN Range(includes) \ DOMAIN p.services
    ELSE Range(includes)

\* Mutant of MissingExcludeServices: a name found is not deleted
MissingExcludeNeverDeleted(p, includes, excludes) == Range(excludes)

\* missingExcludeServices after the loop: names are deleted in exclude mode only
MissingExcludeServices(p, includes, excludes) ==
    IF Len(includes) > 0 THEN Range(excludes)
    ELSE Range(excludes) \ DOMAIN p.services

\* Mutant of FilteredProject: a fresh project is built that holds the services only
FilteredProjectFresh(p, includes, excludes) ==
    [NoProject EXCEPT !.services = FilteredServices(p, includes, excludes)]

\* filteredProject := *project; filteredProject.Services = filteredServices
FilteredProject(p, includes, excludes) ==
    [p EXCEPT !.services = FilteredServices(p, includes, excludes)]

\* The orders in which ranging over a Go map may yield the names of set S
Orders(S) ==
    {q \in [1..Cardinality(S) -> S] : \A i, j \in 1..Cardinality(S) : q[i] = q[j] => i = j}

\* The missing names filterServices may return: the include names left, then
\* the exclude names left, each in the order the map iteration yields them
MissingServicesOrders(p, includes, excludes) ==
    {qi \o qe : qi \in Orders(MissingIncludeServices(p, includes, excludes)),
                qe \in Orders(MissingExcludeServices(p, includes, excludes))}

----------------------------------------------------------------------------
(* applyPortMappings (src/main.go 232-274): one iteration of its loop. *)

\* Index of the first binding of ports with this target, 0 if there is none
FirstWithTarget(ports, target) ==
    IF \E i \in 1..Len(ports) : ports[i].target = target
    THEN CHOOSE i \in 1..Len(ports) :
            /\ ports[i].target = target
            /\ \A j \in 1..(i-1) : ports[j].target # target
    ELSE 0

\* Mutant of UpdatedPorts: no break, every binding of the target is updated
UpdatedPortsEveryMatch(ports, mapping) ==
    LET containerPortUint32 == ParseUint32(mapping.ContainerPort)
    IN  IF \E i \in 1..Len(ports) : ports[i].target = containerPortUint32
        THEN [i \in 1..Len(ports) |->
                IF ports[i].target = containerPortUint32
                THEN [ports[i] EXCEPT !.published = mapping.HostPort]
                ELSE ports[i]]
        ELSE Append(ports, [published |-> mapping.HostPort,
                            target |-> containerPortUint32,
                            protocol |-> "tcp"])

\* Mutant of UpdatedPorts: portUpdated is never set, the binding is also appended
UpdatedPortsAlwaysAppend(ports, mapping) ==
    LET containerPortUint32 == ParseUint32(mapping.ContainerPort)
        newPort == [published |-> mapping.HostPort,
                    target |-> containerPortUint32,
                    protocol |-> "tcp"]
        i == FirstWithTarget(ports, containerPortUint32)
    IN  IF i # 0 THEN Append([ports EXCEPT ![i].published = mapping.HostPort], newPort)
        ELSE Append(ports, newPort)

\* Mutant of UpdatedPorts: the new binding is given no protocol
UpdatedPortsNoProtocol(ports, mapping) ==
    LET containerPortUint32 == ParseUint32(mapping.ContainerPort)
        newPort == [published |-> mapping.HostPort,
                    target |-> containerPortUint32,
                    protocol |-> ""]
        i == FirstWithTarget(ports, containerPortUint32)
    IN  IF i # 0 THEN [ports EXCEPT ![i].published = mapping.HostPort]
        ELSE Append(ports, newPort)

\* service.Ports after the iteration for mapping, the service being present
UpdatedPorts(ports, mapping) ==
    LET containerPortUint32 == ParseUint32(mapping.ContainerPort)
        newPort == [published |-> mapping.HostPort,
                    target |-> containerPortUint32,
                    protocol |-> "tcp"]
        i == FirstWithTarget(ports, containerPortUint32)
    IN  IF i # 0 THEN [ports EXCEPT ![i].published = mapping.HostPort]
        ELSE Append(ports, newPort)

\* Mutant of ApplyMapping: no continue, the zero service gets the binding and is
\* stored in the map under the missing name
ApplyMappingNoContinue(services, mapping) ==
    IF mapping.ServiceName \notin DOMAIN services
    THEN (mapping.ServiceName :>
            [image |-> "", networks |-> {},
             ports |-> UpdatedPorts(<<>>, mapping)]) @@ services
    ELSE [services EXCEPT ![mapping.ServiceName].ports =
                UpdatedPorts(@, mapping)]

\* project.Services after the iteration for mapping: left alone when the
\* service is not in the map (continue), its ports updated when it is
ApplyMapping(services, mapping) ==
    IF mapping.ServiceName \notin DOMAIN services THEN services
    ELSE [services EXCEPT ![mapping.ServiceName].ports =
                UpdatedPorts(@, mapping)]

\* missingServices after the iteration for mapping
MissingAfterMapping(missing, services, mapping) ==
    IF mapping.ServiceName \notin DOMAIN services
    THEN Append(missing, mapping.ServiceName)
    ELSE missing

\* containsRemoveOrphans (src/main.go 342-349)
containsRemoveOrphans(options) ==
    \E i \in 1..Len(options) : options[i] = RemoveOrphans

----------------------------------------------------------------------------
(* findComposeFile (src/main.go 151-163). *)

DefaultComposeFile1 == "docker-compose.yml"
DefaultComposeFile2 == "docker-compose.yaml"

\* The path returned ("" with the error "no docker-compose file found"), given
\* the -f value and the set of files os.Stat finds
findComposeFile(specifiedFile, existing) ==
    IF specifiedFile # "" THEN specifiedFile
    ELSE IF DefaultComposeFile1 \in existing THEN DefaultComposeFile1
    ELSE IF DefaultComposeFile2 \in existing THEN DefaultComposeFile2
    ELSE ""

\* The os.Stat calls findComposeFile makes
StatCalls(specifiedFile, existing) ==
    IF specifiedFile # "" THEN <<>>
    ELSE IF DefaultComposeFile1 \in existing THEN <<[kind |-> "stat", arg |-> <<>>]>>
    ELSE <<[kind |-> "stat", arg |-> <<>>], [kind |-> "stat", arg |-> <<>>]>>

----------------------------------------------------------------------------
(* The inputs of a run. *)

PortA9to80 == <<"a",":","9",":","8","0">>
PortA7to80 == <<"a",":","7",":","8","0">>
PortA7to99 == <<"a",":","7",":","9","9">>
PortB9to53 == <<"b",":","9",":","5","3">>
PortUpperA9to80 == <<"A",":","9",":","8","0">>
PortMalformed == <<"a","-","8","-","8","0">>
\* container ports 2^32 and 2^32 + 1
PortA1toOver == <<"a",":","1",":","4","2","9","4","9","6","7","2","9","6">>
PortA2toOver == <<"a",":","2",":","4","2","9","4","9","6","7","2","9","7">>

\* A plain token, or a directive with its argument
Items ==
    { <<DetachFlag>>, <<RemoveOrphans>>,
      <<IncludeFlag, NameA>>, <<IncludeFlag, NameB>>, <<IncludeFlag, NameUpperA>>,
      <<ExcludeFlag, NameA>>, <<ExcludeFlag, NameUpperA>>,
      <<PortFlag, PortA9to80>>, <<PortFlag, PortA7to80>>, <<PortFlag, PortA7to99>>,
      <<PortFlag, PortB9to53>>, <<PortFlag, PortUpperA9to80>>,
      <<PortFlag, PortMalformed>>,
      <<PortFlag, PortA1toOver>>, <<PortFlag, PortA2toOver>>,
      <<IncludeFlag>>, <<ExcludeFlag>>, <<PortFlag>> }

RECURSIVE ItemLists(_)
ItemLists(n) ==
    IF n = 0 THEN {<<>>}
    ELSE ItemLists(n - 1) \cup {l \o it : l \in ItemLists(n - 1), it \in Items}

Commands == {UpCmd, DownCmd}

ArgLists == {<<>>} \cup {<<c>> \o l : c \in Commands, l \in ItemLists(MaxItems)}

SpecifiedFiles == {"", "custom.yml"}

ChildExitCodes == {0, 2}

NotParsed == [mapping |-> EmptyMapping, err |-> "not parsed"]

NoChild == [started |-> FALSE, file |-> "", args |-> <<>>, stdin |-> NoProject, code |-> 0]

----------------------------------------------------------------------------
(* run (src/main.go 34-66) and executeFilteredCommand (180-228). *)

Init ==
    /\ pc = "start"
    /\ args \in ArgLists
    /\ cmdOptions = <<>>
    /\ includeServices = <<>>
    /\ excludeServices = <<>>
    /\ portMappings = <<>>
    /\ composePath = ""
    /\ project = NoProject
    /\ filteredProject = NoProject
    /\ missingServices = <<>>
    /\ missingPortServices = <<>>
    /\ pmIdx = 0
    /\ trace = <<>>
    /\ child = NoChild
    /\ exitCode = -1
    /\ token = <<>>
    /\ parsed = NotParsed

\* run 44-47: no sub-command; printUsage exits with 1
PrintUsage ==
    /\ UNCHANGED parseVars
    /\ pc = "start"
    /\ Len(args) = 0
    /\ trace' = Append(trace, [kind |-> "usage", arg |-> <<>>])
    /\ exitCode' = 1
    /\ pc' = "exit"
    /\ UNCHANGED <<args, cmdOptions, includeServices, excludeServices, portMappings,
                   composePath, project, filteredProject, missingServices,
                   missingPortServices, pmIdx, child>>

\* run 49-50: parseRemainingArgs(args[1:]), with the warnings it prints
ParseArgs ==
    /\ UNCHANGED parseVars
    /\ pc = "start"
    /\ Len(args) > 0
    /\ LET r == parseRemainingArgs(Tail(args))
       IN  /\ cmdOptions' = r.cmdOptions
           /\ includeServices' = r.includeServices
           /\ excludeServices' = r.excludeServices
           /\ portMappings' = r.portMappings
           /\ trace' = trace \o r.printed
    /\ pc' = "parsed"
    /\ UNCHANGED <<args, composePath, project, filteredProject, missingServices,
                   missingPortServices, pmIdx, child, exitCode>>

\* Mutant of IncludeAndExclude: the check is forgotten
IncludeAndExcludeNever(includes, excludes) == FALSE

\* run 52: the condition of the configuration error
IncludeAndExclude(includes, excludes) ==
    Len(includes) > 0 /\ Len(excludes) > 0

\* run 52-54: include and exclude together; main's log.Fatalf exits with 1
RejectIncludeExclude ==
    /\ UNCHANGED parseVars
    /\ pc = "parsed"
    /\ IncludeAndExclude(includeServices, excludeServices)
    /\ trace' = Append(trace, [kind |-> "fatal_config", arg |-> <<>>])
    /\ exitCode' = 1
    /\ pc' = "exit"
    /\ UNCHANGED <<args, cmdOptions, includeServices, excludeServices, portMappings,
                   composePath, project, filteredProject, missingServices,
                   missingPortServices, pmIdx, child>>

\* run 56-59: findComposeFile on the -f value, against the files that exist
FindComposeFile ==
    /\ UNCHANGED parseVars
    /\ pc = "parsed"
    /\ ~ IncludeAndExclude(includeServices, excludeServices)
    /\ \E specifiedFile \in SpecifiedFiles,
          existing \in SUBSET {DefaultComposeFile1, DefaultComposeFile2} :
         LET path == findComposeFile(specifiedFile, existing)
             stats == StatCalls(specifiedFile, existing)
         IN  IF path = ""
             THEN /\ trace' = (trace \o stats) \o <<[kind |-> "fatal_nofile", arg |-> <<>>]>>
                  /\ exitCode' = 1
                  /\ pc' = "exit"
                  /\ UNCHANGED composePath
             ELSE /\ trace' = trace \o stats
                  /\ composePath' = path
                  /\ pc' = "found"
                  /\ UNCHANGED exitCode
    /\ UNCHANGED <<args, cmdOptions, includeServices, excludeServices, portMappings,
                   project, filteredProject, missingServices,
                   missingPortServices, pmIdx, child>>

\* Mutant of NoDirectives: the pass-through test never holds
NoDirectivesNever == FALSE

\* run 61: nothing to filter and nothing to override
NoDirectives ==
    Len(includeServices) = 0 /\ Len(excludeServices) = 0 /\ Len(portMappings) = 0

\* run 61-63 and executePassthroughCommand 167-176: docker-compose -f path args...;
\* a child that exits with a code other than 0 makes cmd.Run return an error,
\* and main's log.Fatalf exits with 1
ExecutePassthrough ==
    /\ UNCHANGED parseVars
    /\ pc = "found"
    /\ NoDirectives
    /\ \E code \in ChildExitCodes :
         /\ child' = [started |-> TRUE, file |-> composePath, args |-> args,
                      stdin |-> NoProject, code |-> code]
         /\ exitCode' = IF code = 0 THEN 0 ELSE 1
    /\ trace' = Append(trace, [kind |-> "exec", arg |-> <<>>])
    /\ pc' = "exit"
    /\ UNCHANGED <<args, cmdOptions, includeServices, excludeServices, portMappings,
                   composePath, project, filteredProject, missingServices,
                   missingPortServices, pmIdx>>

\* executeFilteredCommand 181-195: the project is loaded
LoadProject ==
    /\ UNCHANGED parseVars
    /\ pc = "found"
    /\ ~ NoDirectives
    /\ \E p \in Projects : project' = p
    /\ trace' = Append(trace, [kind |-> "load", arg |-> <<>>])
    /\ pc' = "loaded"
    /\ UNCHANGED <<args, cmdOptions, includeServices, excludeServices, portMappings,
                   composePath, filteredProject, missingServices,
                   missingPortServices, pmIdx, child, exitCode>>

\* executeFilteredCommand 192-195: LoadProject returns an error
LoadProjectFails ==
    /\ UNCHANGED parseVars
    /\ pc = "found"
    /\ ~ NoDirectives
    /\ trace' = (trace \o <<[kind |-> "load", arg |-> <<>>]>>)
                    \o <<[kind |-> "fatal_load", arg |-> <<>>]>>
    /\ exitCode' = 1
    /\ pc' = "exit"
    /\ UNCHANGED <<args, cmdOptions, includeServices, excludeServices, portMappings,
                   composePath, project, filteredProject, missingServices,
                   missingPortServices, pmIdx, child>>

\* executeFilteredCommand 197: filterServices
FilterServices ==
    /\ UNCHANGED parseVars
    /\ pc = "loaded"
    /\ filteredProject' = FilteredProject(project, includeServices, excludeServices)
    /\ missingServices' \in
            MissingServicesOrders(project, includeServices, excludeServices)
    /\ pmIdx' = 1
    /\ pc' = "ports"
    /\ UNCHANGED <<args, cmdOptions, includeServices, excludeServices, portMappings,
                   composePath, project, missingPortServices, trace, child, exitCode>>

\* applyPortMappings 235-271: the iteration for portMappings[pmIdx]
ApplyPortMapping ==
    /\ UNCHANGED parseVars
    /\ pc = "ports"
    /\ pmIdx <= Len(portMappings)
    /\ LET mapping == portMappings[pmIdx]
       IN  /\ missingPortServices' =
                 MissingAfterMapping(missingPortServices, filteredProject.services, mapping)
           /\ filteredProject' =
                 [filteredProject EXCEPT !.services = ApplyMapping(@, mapping)]
    /\ pmIdx' = pmIdx + 1
    /\ UNCHANGED <<pc, args, cmdOptions, includeServices, excludeServices, portMappings,
                   composePath, project, missingServices, trace, child, exitCode>>

\* The warning block of executeFilteredCommand 203-208
MissingWarning(names) ==
    IF Len(names) = 0 THEN <<>>
    ELSE <<[kind |-> "warn_missing", arg |-> <<>>]>>
            \o [i \in 1..Len(names) |-> [kind |-> "missing_name", arg |-> names[i]]]

\* Mutant of FilteredCommandArgs: --remove-orphans is added for every sub-command
FilteredCommandArgsAnyCommand(composeCmd, options) ==
    IF ~ containsRemoveOrphans(options)
    THEN (<<composeCmd>> \o options) \o <<RemoveOrphans>>
    ELSE <<composeCmd>> \o options

\* The arguments of docker-compose of executeFilteredCommand 215-220, after -f -
FilteredCommandArgs(composeCmd, options) ==
    IF composeCmd = UpCmd /\ ~ containsRemoveOrphans(options)
    THEN (<<composeCmd>> \o options) \o <<RemoveOrphans>>
    ELSE <<composeCmd>> \o options

\* executeFilteredCommand 200-227, after the loop of applyPortMappings: the
\* missing names are joined and printed, the project is marshalled and piped to
\* docker-compose -f - ...
ExecuteFiltered ==
    /\ UNCHANGED parseVars
    /\ pc = "ports"
    /\ pmIdx > Len(portMappings)
    /\ missingServices' = missingServices \o missingPortServices
    /\ trace' = (trace \o MissingWarning(missingServices \o missingPortServices))
                    \o <<[kind |-> "marshal", arg |-> <<>>], [kind |-> "exec", arg |-> <<>>]>>
    /\ \E code \in ChildExitCodes :
         /\ child' = [started |-> TRUE, file |-> "-",
                      args |-> FilteredCommandArgs(args[1], cmdOptions),
                      stdin |-> filteredProject, code |-> code]
         /\ exitCode' = IF code = 0 THEN 0 ELSE 1
    /\ pc' = "exit"
    /\ UNCHANGED <<args, cmdOptions, includeServices, excludeServices, portMappings,
                   composePath, project, filteredProject,
                   missingPortServices, pmIdx>>

Next ==
    \/ PrintUsage
    \/ ParseArgs
    \/ RejectIncludeExclude
    \/ FindComposeFile
    \/ ExecutePassthrough
    \/ LoadProject
    \/ LoadProjectFails
    \/ FilterServices
    \/ ApplyPortMapping
    \/ ExecuteFiltered

Spec == Init /\ [][Next]_vars

----------------------------------------------------------------------------
(* parsePortMapping on its own, on every short token over a small alphabet *)
(* and on tokens whose port fields are near the bounds of strconv.         *)

TokenChars == {"a", ":", "8", " "}

RECURSIVE TokensUpTo(_)
TokensUpTo(n) ==
    IF n = 0 THEN {<<>>}
    ELSE TokensUpTo(n - 1)
            \cup {Append(t, c) : t \in {u \in TokensUpTo(n - 1) : Len(u) = n - 1},
                                 c \in TokenChars}

\* 2^63, the first value strconv.Atoi rejects
MinOverInt64Digits ==
    <<"9","2","2","3","3","7","2","0","3","6","8","5","4","7","7","5","8","0","8">>

LongTokens ==
    { <<"a", ":">> \o h \o <<":">> \o c :
        h, c \in {<<"8">>, MaxInt64Digits, MinOverInt64Digits,
                  <<"0">> \o MaxInt64Digits, <<"0","0">> \o MinOverInt64Digits} }

ParseInputs == TokensUpTo(MaxTokenLen) \cup LongTokens

InitParse ==
    /\ pc = "token"
    /\ token \in ParseInputs
    /\ parsed = NotParsed
    /\ args = <<>>
    /\ cmdOptions = <<>>
    /\ includeServices = <<>>
    /\ excludeServices = <<>>
    /\ portMappings = <<>>
    /\ composePath = ""
    /\ project = NoProject
    /\ filteredProject = NoProject
    /\ missingServices = <<>>
    /\ missingPortServices = <<>>
    /\ pmIdx = 0
    /\ trace = <<>>
    /\ child = NoChild
    /\ exitCode = -1

\* One call parsePortMapping(token)
ParseToken ==
    /\ pc = "token"
    /\ parsed' = parsePortMapping(token)
    /\ pc' = "parsed_token"
    /\ UNCHANGED <<token, args, cmdOptions, includeServices, excludeServices,
                   portMappings, composePath, project, filteredProject,
                   missingServices, missingPortServices, pmIdx, trace, child,
                   exitCode>>

NextParse == ParseToken

SpecParse == InitParse /\ [][NextParse]_vars

----------------------------------------------------------------------------
(* Properties of a run. *)

\* The run took the filtered path and is at or after filterServices
Filtered == pc = "ports" \/ (pc = "exit" /\ child.started /\ child.file = "-")

\* The project at hand on the filtered path: the one serialized, once the child runs
OutProject == IF pc = "exit" THEN child.stdin ELSE filteredProject

OtherSections(p) == [f \in (DOMAIN p) \ {"services"} |-> p[f]]

OtherFields(svc) == [f \in (DOMAIN svc) \ {"ports"} |-> svc[f]]

\* C1: when at least one --include name and at least one --exclude name were
\* classified, the run goes nowhere but to the configuration error (exit code 1):
\* no compose file is looked up (no os.Stat, no path), no project is loaded,
\* nothing is marshalled and no docker-compose process is started.
C1_IncludeExcludeRejected ==
    (Len(includeServices) > 0 /\ Len(excludeServices) > 0) =>
        /\ pc \in {"parsed", "exit"}
        /\ composePath = ""
        /\ project = NoProject
        /\ ~ child.started
        /\ \A i \in 1..Len(trace) :
                trace[i].kind \notin {"stat", "load", "marshal", "exec"}
        /\ pc = "exit" =>
                /\ exitCode = 1
                /\ trace[Len(trace)].kind = "fatal_config"

C1_Witness ==
    /\ pc = "exit"
    /\ Len(includeServices) > 0 /\ Len(excludeServices) > 0
    /\ exitCode = 1
    /\ trace[Len(trace)].kind = "fatal_config"

\* C2: include mode (include list not empty, exclude list empty): the services
\* filterServices returns are exactly those of the project named in the include
\* list, the missing names are exactly the include names that are not services
\* of the project, and the run has not failed; with a project of no services
\* the result has no services and every include name is missing.
C2_IncludeMode ==
    (pc = "ports" /\ Len(includeServices) > 0 /\ Len(excludeServices) = 0) =>
        /\ DOMAIN filteredProject.services =
                (DOMAIN project.services) \cap Range(includeServices)
        /\ Range(missingServices) =
                Range(includeServices) \ (DOMAIN project.services)
        /\ exitCode = -1
        /\ (DOMAIN project.services = {}) =>
                /\ DOMAIN filteredProject.services = {}
                /\ Range(missingServices) = Range(includeServices)

C2_Witness ==
    /\ pc = "ports"
    /\ Len(includeServices) > 1 /\ Len(excludeServices) = 0
    /\ DOMAIN filteredProject.services # {}
    /\ DOMAIN filteredProject.services # DOMAIN project.services
    /\ missingServices # <<>>

\* C3: exclude mode (exclude list not empty, include list empty): the services
\* filterServices returns are exactly those of the project not named in the
\* exclude list, and the missing names are exactly the exclude names that are
\* not services of the project.
C3_ExcludeMode ==
    (pc = "ports" /\ Len(excludeServices) > 0 /\ Len(includeServices) = 0) =>
        /\ DOMAIN filteredProject.services =
                (DOMAIN project.services) \ Range(excludeServices)
        /\ Range(missingServices) =
                Range(excludeServices) \ (DOMAIN project.services)

C3_Witness ==
    /\ pc = "ports"
    /\ Len(excludeServices) > 1 /\ Len(includeServices) = 0
    /\ DOMAIN filteredProject.services # {}
    /\ DOMAIN filteredProject.services # DOMAIN project.services
    /\ missingServices # <<>>

\* C4: with no include and no exclude name, filterServices returns the service
\* map of the project as it is and no missing name, and that is also what
\* include mode returns for an include list of all the service names of the
\* project, in any order.
C4_NoDirectiveIdentity ==
    (pc = "ports" /\ pmIdx = 1
        /\ Len(includeServices) = 0 /\ Len(excludeServices) = 0) =>
        /\ filteredProject.services = project.services
        /\ missingServices = <<>>
        /\ \A q \in Orders(DOMAIN project.services) :
                /\ FilteredProject(project, q, <<>>) = filteredProject
                /\ MissingServicesOrders(project, q, <<>>) = {missingServices}

C4_Witness ==
    /\ pc = "ports" /\ pmIdx = 1
    /\ Len(includeServices) = 0 /\ Len(excludeServices) = 0
    /\ Cardinality(DOMAIN project.services) > 1
    /\ filteredProject.services = project.services

\* C5: on the filtered path, in every mode and for every list of overrides, the
\* sections of the project other than its services are those of the loaded
\* project, up to the project that is serialized; every service kept is a service
\* of the loaded project with all its fields other than ports as loaded; and
\* right after filterServices every service kept is the loaded one, ports too.
C5_Frame ==
    Filtered =>
        /\ OtherSections(OutProject) = OtherSections(project)
        /\ \A n \in DOMAIN OutProject.services :
                /\ n \in DOMAIN project.services
                /\ OtherFields(OutProject.services[n]) = OtherFields(project.services[n])
        /\ (pc = "ports" /\ pmIdx = 1) =>
                \A n \in DOMAIN filteredProject.services :
                    filteredProject.services[n] = project.services[n]

C5_Witness ==
    /\ pc = "exit" /\ child.started /\ child.file = "-"
    /\ project.networks # {}
    /\ DOMAIN child.stdin.services # {}
    /\ DOMAIN child.stdin.services # DOMAIN project.services
    /\ \E n \in DOMAIN child.stdin.services :
            child.stdin.services[n].ports # project.services[n].ports

\* The iteration of applyPortMappings for portMappings[pmIdx] is taken
OverrideStep == pc = "ports" /\ pmIdx <= Len(portMappings) /\ pmIdx' = pmIdx + 1

\* The target port of an override, the uint32 applyPortMappings computes from
\* its containerPort field
TargetOf(m) == ParseUint32(m.ContainerPort)

CountTarget(ports, t) == Cardinality({i \in 1..Len(ports) : ports[i].target = t})

\* The loop of applyPortMappings is over
OverridesDone == Filtered /\ pmIdx > Len(portMappings)

\* C6: an iteration of applyPortMappings for an override (svc, host, target)
\* whose service is present and has a binding of that target keeps the length
\* and the order of the ports, sets the published port of the first binding of
\* that target to host, keeps that binding's target and protocol, and leaves
\* every other binding, every other field of svc and every other service as
\* they were.
C6_OverrideExisting ==
    [][ OverrideStep =>
          LET m == portMappings[pmIdx]
              svc == m.ServiceName
              old == filteredProject.services
              new == filteredProject'.services
          IN  (svc \in DOMAIN old
                /\ \E i \in 1..Len(old[svc].ports) : old[svc].ports[i].target = TargetOf(m)) =>
                LET first == CHOOSE i \in 1..Len(old[svc].ports) :
                                /\ old[svc].ports[i].target = TargetOf(m)
                                /\ \A j \in 1..(i-1) : old[svc].ports[j].target # TargetOf(m)
                IN  /\ DOMAIN new = DOMAIN old
                    /\ Len(new[svc].ports) = Len(old[svc].ports)
                    /\ new[svc].ports[first].published = m.HostPort
                    /\ new[svc].ports[first].target = old[svc].ports[first].target
                    /\ new[svc].ports[first].protocol = old[svc].ports[first].protocol
                    /\ \A j \in 1..Len(old[svc].ports) :
                            j # first => new[svc].ports[j] = old[svc].ports[j]
                    /\ OtherFields(new[svc]) = OtherFields(old[svc])
                    /\ \A n \in DOMAIN old : n # svc => new[n] = old[n]
      ]_vars

\* The first override found a second binding of its target and changed the first
C6_Witness ==
    /\ pc = "ports" /\ pmIdx = 2
    /\ LET m == portMappings[1]
           svc == m.ServiceName
       IN  /\ svc \in DOMAIN filteredProject.services
           /\ CountTarget(project.services[svc].ports, TargetOf(m)) = 2
           /\ Len(filteredProject.services[svc].ports) = 2
           /\ filteredProject.services[svc].ports[1].published = m.HostPort
           /\ filteredProject.services[svc].ports[1] # project.services[svc].ports[1]
           /\ filteredProject.services[svc].ports[2] = project.services[svc].ports[2]

\* C7: once applyPortMappings has processed its overrides in order, a present
\* service that had at most one binding of an override's target has exactly one
\* binding of it, published on the host port of the last override of that
\* service and target; and applying an override again to the services it was
\* applied to changes nothing.
C7_LastOverrideWins ==
    /\ OverridesDone =>
        \A k \in 1..Len(portMappings) :
            LET m == portMappings[k]
                svc == m.ServiceName
                same == {j \in 1..Len(portMappings) :
                            /\ portMappings[j].ServiceName = svc
                            /\ TargetOf(portMappings[j]) = TargetOf(m)}
                last == CHOOSE j \in same : \A h \in same : h <= j
            IN  (svc \in DOMAIN OutProject.services
                    /\ CountTarget(project.services[svc].ports, TargetOf(m)) <= 1) =>
                    /\ CountTarget(OutProject.services[svc].ports, TargetOf(m)) = 1
                    /\ \A i \in 1..Len(OutProject.services[svc].ports) :
                            OutProject.services[svc].ports[i].target = TargetOf(m) =>
                                OutProject.services[svc].ports[i].published =
                                    portMappings[last].HostPort
    /\ pc = "ports" =>
        \A k \in 1..Len(portMappings) :
            LET once == ApplyMapping(filteredProject.services, portMappings[k])
            IN  ApplyMapping(once, portMappings[k]) = once

\* Two overrides of one service and target with different host ports were applied
C7_Witness ==
    /\ pc = "exit" /\ child.started /\ child.file = "-"
    /\ Len(portMappings) = 2
    /\ portMappings[1].ServiceName = portMappings[2].ServiceName
    /\ TargetOf(portMappings[1]) = TargetOf(portMappings[2])
    /\ portMappings[1].HostPort # portMappings[2].HostPort
    /\ portMappings[1].ServiceName \in DOMAIN child.stdin.services
    /\ LET svc == portMappings[1].ServiceName
       IN  /\ CountTarget(project.services[svc].ports, TargetOf(portMappings[1])) = 1
           /\ CountTarget(child.stdin.services[svc].ports, TargetOf(portMappings[1])) = 1

\* C8: an iteration of applyPortMappings for an override (svc, host, target)
\* whose service is present and has no binding of that target leaves the ports
\* as they were, in order, followed by the one new binding
\* {published: host, target: target, protocol: "tcp"}; nothing else changes.
C8_OverrideInserted ==
    [][ OverrideStep =>
          LET m == portMappings[pmIdx]
              svc == m.ServiceName
              old == filteredProject.services
              new == filteredProject'.services
          IN  (svc \in DOMAIN old
                /\ \A i \in 1..Len(old[svc].ports) : old[svc].ports[i].target # TargetOf(m)) =>
                /\ DOMAIN new = DOMAIN old
                /\ Len(new[svc].ports) = Len(old[svc].ports) + 1
                /\ \A j \in 1..Len(old[svc].ports) : new[svc].ports[j] = old[svc].ports[j]
                /\ new[svc].ports[Len(old[svc].ports) + 1] =
                        [published |-> m.HostPort, target |-> TargetOf(m), protocol |-> "tcp"]
                /\ OtherFields(new[svc]) = OtherFields(old[svc])
                /\ \A n \in DOMAIN old : n # svc => new[n] = old[n]
      ]_vars

\* The first override was appended to a service that has bindings of other targets
C8_Witness ==
    /\ pc = "ports" /\ pmIdx = 2
    /\ LET m == portMappings[1]
           svc == m.ServiceName
       IN  /\ svc \in DOMAIN filteredProject.services
           /\ project.services[svc].ports # <<>>
           /\ CountTarget(project.services[svc].ports, TargetOf(m)) = 0
           /\ filteredProject.services[svc].ports =
                Append(project.services[svc].ports,
                       [published |-> m.HostPort, target |-> TargetOf(m), protocol |-> "tcp"])

\* C9: overrides act on the project filterServices returned.  An iteration of
\* applyPortMappings for an override whose service is not a key of it (never
\* declared, or removed by the selection) appends that name to the missing names,
\* changes no service and creates none, and the loop goes on; no docker-compose
\* process is started on the filtered path before every override was processed,
\* each override of a missing service is then reported and has no service in the
\* project serialized, and each override of a present service has its binding.
C9_MissingOverrideTarget ==
    /\ [][ OverrideStep =>
              LET m == portMappings[pmIdx]
              IN  (m.ServiceName \notin DOMAIN filteredProject.services) =>
                    /\ missingPortServices' = Append(missingPortServices, m.ServiceName)
                    /\ filteredProject' = filteredProject
                    /\ pc' = "ports"
         ]_vars
    /\ [] ((pc = "exit" /\ child.started /\ child.file = "-") =>
              /\ pmIdx = Len(portMappings) + 1
              /\ \A k \in 1..Len(portMappings) :
                    LET m == portMappings[k]
                    IN  IF m.ServiceName \in DOMAIN FilteredProject(project, includeServices, excludeServices).services
                        THEN /\ m.ServiceName \in DOMAIN child.stdin.services
                             /\ CountTarget(child.stdin.services[m.ServiceName].ports, TargetOf(m)) >= 1
                        ELSE /\ m.ServiceName \notin DOMAIN child.stdin.services
                             /\ m.ServiceName \in Range(missingPortServices)
                             /\ m.ServiceName \in Range(missingServices))

\* An override of a service that the project declares and the selection removed
\* was reported missing, and the service is not in the project serialized
C9_Witness ==
    /\ pc = "exit" /\ child.started /\ child.file = "-"
    /\ Len(portMappings) = 1
    /\ portMappings[1].ServiceName \in DOMAIN project.services
    /\ portMappings[1].ServiceName \notin DOMAIN child.stdin.services
    /\ DOMAIN child.stdin.services # {}
    /\ missingPortServices = <<portMappings[1].ServiceName>>
    /\ portMappings[1].ServiceName \in Range(missingServices)

----------------------------------------------------------------------------
(* Properties of parsePortMapping on its own. *)

ColonPlaces(t) == {i \in 1..Len(t) : t[i] = ":"}

IsDigits(s) == Len(s) > 0 /\ \A i \in 1..Len(s) : s[i] \in DigitChars

\* The three fields of a token with two colons
FieldsOf(t) ==
    LET i == CHOOSE x \in ColonPlaces(t) : \A y \in ColonPlaces(t) : x <= y
        j == CHOOSE x \in ColonPlaces(t) : \A y \in ColonPlaces(t) : y <= x
    IN  [ServiceName |-> SubSeq(t, 1, i - 1),
         HostPort |-> SubSeq(t, i + 1, j - 1),
         ContainerPort |-> SubSeq(t, j + 1, Len(t))]

\* serviceName:hostPort:containerPort, the name not empty and without a colon,
\* both ports not empty and of decimal digits only
HasExactForm(t) ==
    /\ Cardinality(ColonPlaces(t)) = 2
    /\ Len(FieldsOf(t).ServiceName) > 0
    /\ IsDigits(FieldsOf(t).HostPort)
    /\ IsDigits(FieldsOf(t).ContainerPort)

\* The value of a digit string is at most 2^63 - 1
FitsInt64(s) == StripZeros(s) = MaxInt64Digits \/ DecLess(StripZeros(s), MaxInt64Digits)

\* C10 as stated: parsePortMapping accepts a token if and only if it has the
\* exact form serviceName:hostPort:containerPort with digit-only ports; it then
\* returns the three fields unchanged, and otherwise an error and no mapping.
C10_AcceptsExactForm ==
    pc = "parsed_token" =>
        /\ (parsed.err = "") <=> HasExactForm(token)
        /\ parsed.err = "" => parsed.mapping = FieldsOf(token)
        /\ parsed.err # "" => parsed.mapping = EmptyMapping

\* C10, amended: parsePortMapping accepts a token if and only if it has the
\* exact form serviceName:hostPort:containerPort, the name not empty and without
\* a colon, both ports non-empty digit strings, and the value of each port is at
\* most 2^63 - 1 (what strconv.Atoi reads); nothing is trimmed; it then returns
\* the three fields unchanged, and otherwise an error and no mapping.
C10_AcceptsExactFormInRange ==
    pc = "parsed_token" =>
        /\ (parsed.err = "") <=>
                /\ HasExactForm(token)
                /\ FitsInt64(FieldsOf(token).HostPort)
                /\ FitsInt64(FieldsOf(token).ContainerPort)
        /\ parsed.err = "" => parsed.mapping = FieldsOf(token)
        /\ parsed.err # "" => parsed.mapping = EmptyMapping

\* A token whose container port is 2^63 - 1, with leading zeros, was accepted
C10_Witness ==
    /\ pc = "parsed_token"
    /\ parsed.err = ""
    /\ parsed.mapping.ServiceName = <<"a">>
    /\ parsed.mapping.ContainerPort = <<"0">> \o MaxInt64Digits
    /\ token = (<<"a", ":">> \o parsed.mapping.HostPort) \o (<<":", "0">> \o MaxInt64Digits)

----------------------------------------------------------------------------
(* Properties of the classification of the arguments. *)

IsFlag(t) == t \in {IncludeFlag, ExcludeFlag, PortFlag}

\* Place i of a holds a directive: a flag that has a successor and is not itself
\* the argument of a directive at the place before
RECURSIVE DirectiveAt(_, _)
DirectiveAt(a, i) ==
    /\ 1 <= i /\ i < Len(a)
    /\ IsFlag(a[i])
    /\ ~ (i > 1 /\ DirectiveAt(a, i - 1))

Directives(a) == {i \in 1..Len(a) : DirectiveAt(a, i)}

DirectivesOf(a, flag) == {i \in Directives(a) : a[i] = flag}

\* The places of a that no directive takes, as a flag or as an argument
PlainPlaces(a) ==
    {i \in 1..Len(a) : i \notin Directives(a) /\ (i - 1) \notin Directives(a)}

\* The tokens of a at the places P, in the order of a
Pick(a, P) ==
    [k \in 1..Cardinality(P) |->
        a[CHOOSE i \in P : Cardinality({j \in P : j < i}) = k - 1]]

\* The arguments of the directives at the places D, in the order of a
ArgumentsOf(a, D) == Pick(a, {i + 1 : i \in D})

\* a without the places i and i + 1
WithoutPair(a, i) == SubSeq(a, 1, i - 1) \o SubSeq(a, i + 2, Len(a))

\* The token a mapping was read from
TokenOf(m) == ((m.ServiceName \o <<":">>) \o m.HostPort) \o (<<":">> \o m.ContainerPort)

\* The --port directives of a whose token parsePortMapping rejects, or accepts
RejectedPorts(a) ==
    {i \in DirectivesOf(a, PortFlag) : parsePortMapping(a[i+1]).err # ""}

AcceptedPorts(a) ==
    {i \in DirectivesOf(a, PortFlag) : parsePortMapping(a[i+1]).err = ""}

\* C11: a --port directive whose token parsePortMapping rejects is warned about
\* and skipped by parseRemainingArgs: the four lists are those of the argument
\* list without that directive and its token, the run has not failed, and the
\* overrides are the accepted tokens, in token order.
C11_MalformedPortSkipped ==
    pc = "parsed" =>
        LET a == Tail(args)
        IN  /\ \A i \in RejectedPorts(a) :
                LET r == parseRemainingArgs(WithoutPair(a, i))
                IN  /\ cmdOptions = r.cmdOptions
                    /\ includeServices = r.includeServices
                    /\ excludeServices = r.excludeServices
                    /\ portMappings = r.portMappings
                    /\ \E k \in 1..Len(trace) :
                            trace[k] = [kind |-> "warn_port", arg |-> a[i+1]]
            /\ exitCode = -1
            /\ Len(portMappings) = Cardinality(AcceptedPorts(a))
            /\ [k \in 1..Len(portMappings) |-> TokenOf(portMappings[k])]
                    = ArgumentsOf(a, AcceptedPorts(a))
            /\ Cardinality({k \in 1..Len(trace) : trace[k].kind = "warn_port"})
                    = Cardinality(RejectedPorts(a))

\* A rejected --port token was skipped and the override after it was kept
C11_Witness ==
    /\ pc = "parsed"
    /\ Len(args) = 5
    /\ RejectedPorts(Tail(args)) = {1}
    /\ AcceptedPorts(Tail(args)) = {3}
    /\ Len(portMappings) = 1
    /\ cmdOptions = <<>>
    /\ Len(trace) = 1

----------------------------------------------------------------------------
(* Properties of the path run() takes. *)

\* The events of the trace of one kind
Events(kind) == {k \in 1..Len(trace) : trace[k].kind = kind}

\* The last token is a flag that no directive before it takes as its argument
TrailingDirective(a) ==
    /\ Len(a) > 0
    /\ IsFlag(a[Len(a)])
    /\ (Len(a) - 1) \notin Directives(a)

\* C12: a directive token in last place, with no argument after it, makes the
\* run fail with an error that names the flag: no child process is started, the
\* flag is not among the pass-through options, and the run ends with exit code 1
\* after an error about that flag.
C12_TrailingDirectiveFails ==
    LET a == Tail(args)
    IN  (Len(args) > 0 /\ TrailingDirective(a)) =>
            /\ ~ child.started
            /\ \A k \in 1..Len(cmdOptions) : cmdOptions[k] # a[Len(a)]
            /\ pc = "exit" =>
                    /\ exitCode = 1
                    /\ trace[Len(trace)] = [kind |-> "fatal_argument", arg |-> a[Len(a)]]

NoFlagTokens == \A k \in 1..Len(args) : ~ IsFlag(args[k])

\* C14: with no --include, --exclude or --port token among the arguments, run()
\* never loads, filters or serializes the project, and the only child it starts
\* is docker-compose -f <the compose path found> followed by the sub-command and
\* all the tokens, unchanged and in order.
C14_PureProxy ==
    (Len(args) > 0 /\ NoFlagTokens) =>
        /\ pc \notin {"loaded", "ports"}
        /\ project = NoProject /\ filteredProject = NoProject
        /\ Events("load") = {} /\ Events("marshal") = {} /\ Events("warn_missing") = {}
        /\ child.started =>
                /\ child.file = composePath
                /\ composePath # ""
                /\ child.args = args
                /\ child.stdin = NoProject
        /\ pc = "exit" => (child.started \/ Events("fatal_nofile") # {})

\* A sub-command with two options was handed to docker-compose as it came
C14_Witness ==
    /\ pc = "exit"
    /\ NoFlagTokens
    /\ Len(args) = 3
    /\ child.started
    /\ child.args = args

\* C15: an argument list with a --port directive and its argument makes run()
\* take the path of executeFilteredCommand, with the compose file given as "-"
\* on the standard input, and never the pass-through path; no --port token is
\* handed to docker-compose.
C15_PortForcesPipeline ==
    (Len(args) > 0 /\ DirectivesOf(Tail(args), PortFlag) # {}) =>
        (child.started =>
            /\ child.file = "-"
            /\ child.stdin # NoProject
            /\ Events("marshal") # {}
            /\ \A k \in 1..Len(child.args) : child.args[k] # PortFlag)

----------------------------------------------------------------------------
(* Properties of the report of missing names, of the exit code and of the
   child's arguments. *)

\* The characters of the tokens, in the order of their bytes
ByteOrder ==
    <<" ", "-", "0", "1", "2", "3", "4", "5", "6", "7", "8", "9", ":", "A",
      "a", "b", "c", "d", "e", "h", "i", "l", "m", "n", "o", "p", "r", "s",
      "t", "u", "v", "w", "x">>

Rank(ch) == CHOOSE k \in 1..Len(ByteOrder) : ByteOrder[k] = ch

\* s comes strictly before t in the lexicographic order of strings
LexLess(s, t) ==
    \E k \in 1..(Len(t)) :
        /\ k <= Len(s) + 1
        /\ \A j \in 1..(k - 1) : s[j] = t[j]
        /\ (k = Len(s) + 1 \/ Rank(s[k]) < Rank(t[k]))

SortedNames(l) ==
    \A i, j \in 1..Len(l) : i < j => (l[i] = l[j] \/ LexLess(l[i], l[j]))

\* The run went through executeFilteredCommand to its child
FilteredRunDone == pc = "exit" /\ Events("marshal") # {}

\* The names the warning block printed, in the order printed
PrintedNames == Pick(trace, Events("missing_name"))

\* C16: the list of missing names that filterServices returns, and the list
\* that executeFilteredCommand prints, are in lexicographically sorted order (so
\* that two runs on the same project and directives report the same sequence).
C16_SortedReport ==
    /\ pc = "ports" => SortedNames(missingServices)
    /\ FilteredRunDone =>
            SortedNames([k \in 1..Len(PrintedNames) |-> PrintedNames[k].arg])

\* C17: on both paths the exit code of the process equals the exit code of the
\* docker-compose child.
C17_ExitStatusPropagated ==
    (pc = "exit" /\ child.started) => exitCode = child.code

\* C18: in the list that executeFilteredCommand prints (missing names of the
\* selection, then missing names of the overrides) no name occurs twice.
C18_ReportIsSet ==
    FilteredRunDone =>
        \A i, j \in 1..Len(PrintedNames) :
            i # j => PrintedNames[i].arg # PrintedNames[j].arg

\* The run ended in one of the fatal errors of run(): include and exclude
\* together, no compose file, the project not loaded
FatalEnd ==
    /\ pc = "exit"
    /\ Len(trace) > 0
    /\ trace[Len(trace)].kind \in {"fatal_config", "fatal_nofile", "fatal_load"}

\* C19: on a run that ends in a fatal error no docker-compose process was
\* started and nothing was written before the error: no warning about a
\* malformed --port token, no warning about missing names.
C19_FatalLeavesNoTrace ==
    FatalEnd =>
        /\ ~ child.started
        /\ Events("exec") = {}
        /\ Events("warn_port") = {}
        /\ Events("warn_missing") = {} /\ Events("missing_name") = {}
        /\ Events("usage") = {}

\* How often --remove-orphans occurs in a list of tokens
CountRemoveOrphans(l) == Cardinality({k \in 1..Len(l) : l[k] = RemoveOrphans})

\* C20: executeFilteredCommand starts docker-compose with -f - and then the
\* sub-command, the pass-through options in order, and one more
\* --remove-orphans exactly when the sub-command is up and the options hold
\* none; so the arguments hold it once for up unless the user gave it more
\* often, and as often as the user gave it for any other sub-command.
C20_FilteredChildArgs ==
    FilteredRunDone =>
        LET n == CountRemoveOrphans(cmdOptions)
            extra == IF args[1] = UpCmd /\ n = 0 THEN <<RemoveOrphans>> ELSE <<>>
        IN  /\ child.started
            /\ child.file = "-"
            /\ child.args = (<<args[1]>> \o cmdOptions) \o extra
            /\ CountRemoveOrphans(child.args) =
                    IF args[1] = UpCmd /\ n = 0 THEN 1 ELSE n

\* up with an option and a directive: --remove-orphans was added at the end
C20_Witness ==
    /\ FilteredRunDone
    /\ args[1] = UpCmd
    /\ cmdOptions = <<DetachFlag>>
    /\ child.args = <<UpCmd, DetachFlag, RemoveOrphans>>

----------------------------------------------------------------------------
(* The target port of an override against the containerPort field of its token. *)

\* The decimal value of a digit string, in canonical digits
DecimalValue(s) == StripZeros(s)

\* C21: for every accepted --port token whose service is present, the target
\* that applyPortMappings matched and wrote is the decimal value of the token's
\* containerPort field: after the loop the service has a binding of that very
\* target, published on the host port of the last override of that service and
\* value, so overrides with different containerPort values never meet in one
\* binding (no clamping or wrapping to 32 bits).
C21_TargetFidelity ==
    OverridesDone =>
        \A k \in 1..Len(portMappings) :
            LET m == portMappings[k]
                svc == m.ServiceName
                v == DecimalValue(m.ContainerPort)
                same == {j \in 1..Len(portMappings) :
                            /\ portMappings[j].ServiceName = svc
                            /\ DecimalValue(portMappings[j].ContainerPort) = v}
                last == CHOOSE j \in same : \A h \in same : h <= j
            IN  svc \in DOMAIN OutProject.services =>
                    LET ports == OutProject.services[svc].ports
                    IN  /\ \E i \in 1..Len(ports) : ports[i].target = v
                        /\ CountTarget(project.services[svc].ports, v) <= 1 =>
                             \A i \in 1..Len(ports) :
                                ports[i].target = v =>
                                    ports[i].published = portMappings[last].HostPort

====
